---- MODULE Spec2Model ----
(***************************************************************************)
(* Model of src/theme/DocSidebarItem/index.js: the sidebar item tree, the  *)
(* dispatcher DocSidebarItem, the active-path matcher, and the per-category*)
(* collapsed state driven by header clicks, navigation and viewport change.*)
(*                                                                         *)
(* Strings that the code inspects character by character (hrefs, the       *)
(* active path) are sequences of one-character strings.  JavaScript values *)
(* that may be undefined are carried as the string "undefined".            *)
(***************************************************************************)
EXTENDS Naturals, Integers, Sequences, FiniteSets, TLC

\* Nesting depth of the category chain of the sidebars explored.
MaxDepth == 2

VARIABLES
    sidebar,      \* the items prop of the root DocSidebarItems (immutable)
    activePath,   \* the activePath prop
    windowSize,   \* what useWindowSize() returns
    mounted,      \* positions whose DocSidebarItem instance exists
    collapsed,    \* per category position: the useCollapsible state
    wasActive     \* per category position: the ref kept by usePrevious

vars == <<sidebar, activePath, windowSize, mounted, collapsed, wasActive>>

----------------------------------------------------------------------------
(* Characters and paths *)

LowerLetters == <<"a", "b", "c", "d", "e">>
UpperLetters == <<"A", "B", "C", "D", "E">>

Characters ==
    {"/", "y", "z"} \cup {LowerLetters[i] : i \in 1..Len(LowerLetters)}
                    \cup {UpperLetters[i] : i \in 1..Len(UpperLetters)}

\* String.prototype.toLowerCase, character by character.
LowerCaseOf ==
    [c \in Characters |->
        IF \E i \in 1..Len(UpperLetters) : UpperLetters[i] = c
        THEN LowerLetters[CHOOSE i \in 1..Len(UpperLetters) : UpperLetters[i] = c]
        ELSE c]

toLowerCase(c) == LowerCaseOf[c]

\* isSamePath is imported from @docusaurus/theme-common; its normalize is
\*   (!pathname || pathname.endsWith('/') ? pathname : pathname + '/').toLowerCase()
normalize(pathname) ==
    LET slashed == IF pathname = <<>> \/ pathname[Len(pathname)] = "/"
                   THEN pathname
                   ELSE Append(pathname, "/")
    IN  [i \in 1..Len(slashed) |-> toLowerCase(slashed[i])]

isSamePath(path1, path2) == normalize(path1) = normalize(path2)

\* The href of the link at depth d: odd depths "/x", even depths "/X/".
Href(d) ==
    IF d % 2 = 1 THEN <<"/", LowerLetters[d]>> ELSE <<"/", UpperLetters[d], "/">>

OtherHref == <<"/", "z">>

ActivePaths ==
    UNION { { <<"/", LowerLetters[d]>>, <<"/", UpperLetters[d], "/">> } :
            d \in 1..MaxDepth }
    \cup { OtherHref, <<"/", "y">> }

\* useWindowSize(): "ssr" until the window has been measured.
WindowSizes == {"ssr", "desktop", "mobile"}

----------------------------------------------------------------------------
(* Sidebar items *)

NoProps == [tag |-> "undefined", str |-> "undefined", method |-> "undefined"]
StringProps(s) == [tag |-> "string", str |-> s, method |-> "undefined"]
ObjectProps(m) == [tag |-> "object", str |-> "undefined", method |-> m]

LinkItem(href, customProps) ==
    [type |-> "link", href |-> href, items |-> <<>>,
     collapsible |-> FALSE, collapsed |-> FALSE, customProps |-> customProps]

CategoryItem(items, collapsible, isCollapsed) ==
    [type |-> "category", href |-> <<>>, items |-> items,
     collapsible |-> collapsible, collapsed |-> isCollapsed, customProps |-> NoProps]

\* An item as a malformed sidebar would hold it: a type the code does not know.
OtherItem(href) ==
    [type |-> "doc", href |-> href, items |-> <<>>,
     collapsible |-> FALSE, collapsed |-> FALSE, customProps |-> NoProps]

\* Items without state of their own, at the root of every sidebar explored:
\* a link whose customProps is the string "versioned", links whose
\* customProps is an object with a method, an item of unknown type, an empty
\* category.
RootExtraItems ==
    << LinkItem(OtherHref, StringProps("versioned")),
       LinkItem(OtherHref, ObjectProps("versioned")),
       LinkItem(OtherHref, ObjectProps("get")),
       OtherItem(OtherHref),
       CategoryItem(<<>>, TRUE, TRUE) >>

\* The same kinds of malformed item, nested in the innermost category.
NestedExtraItems == << OtherItem(OtherHref), CategoryItem(<<>>, TRUE, FALSE) >>

CategoryFlags == [collapsible : BOOLEAN, collapsed : BOOLEAN]

\* A category at each depth d, holding a link and the category of depth d+1;
\* the innermost holds a link and the nested extra items.
RECURSIVE CategoryChain(_, _)
CategoryChain(d, flags) ==
    CategoryItem(
        IF d = MaxDepth
        THEN <<LinkItem(Href(d), NoProps)>> \o NestedExtraItems
        ELSE <<LinkItem(Href(d), NoProps), CategoryChain(d + 1, flags)>>,
        flags[d].collapsible, flags[d].collapsed)

Sidebars ==
    { <<CategoryChain(1, flags)>> \o RootExtraItems :
        flags \in [1..MaxDepth -> CategoryFlags] }

\* Positions are index paths from the root list: <<1, 2>> is the second child
\* of the first root item.
RECURSIVE PositionsOf(_, _)
PositionsOf(items, prefix) ==
    UNION { {prefix \o <<i>>} \cup PositionsOf(items[i].items, prefix \o <<i>>) :
            i \in 1..Len(items) }

RECURSIVE ItemIn(_, _)
ItemIn(items, pos) ==
    IF Len(pos) = 1 THEN items[pos[1]] ELSE ItemIn(items[pos[1]].items, Tail(pos))

Parent(pos) == SubSeq(pos, 1, Len(pos) - 1)

Positions == PositionsOf(sidebar, <<>>)

ItemAt(pos) == ItemIn(sidebar, pos)

----------------------------------------------------------------------------
(* The pure functions of the file *)

\* A matcher that looks at the direct children of a category only.
isActiveSidebarItem_DirectChildrenOnly(item, path) ==
    IF item.type = "link" THEN isSamePath(item.href, path)
    ELSE IF item.type = "category"
    THEN \E i \in 1..Len(item.items) :
            item.items[i].type = "link" /\ isSamePath(item.items[i].href, path)
    ELSE FALSE

RECURSIVE isActiveSidebarItem(_, _)
isActiveSidebarItem(item, path) ==
    IF item.type = "link" THEN isSamePath(item.href, path)
    ELSE IF item.type = "category"
    THEN \E i \in 1..Len(item.items) : isActiveSidebarItem(item.items[i], path)
    ELSE FALSE

\* A dispatcher without the empty-category test.
DocSidebarItem_NoEmptyCheck(item) ==
    CASE item.type = "category" -> "DocSidebarItemCategory"
      [] item.type = "link" ->
            IF item.customProps.tag = "string" /\ item.customProps.str = "versioned"
            THEN "DocSidebarVersionDropdown"
            ELSE "DocSidebarItemLink"
      [] OTHER -> "DocSidebarItemLink"

\* A dispatcher whose switch has no default case.
DocSidebarItem_NoDefault(item) ==
    CASE item.type = "category" ->
            IF Len(item.items) = 0 THEN "null" ELSE "DocSidebarItemCategory"
      [] item.type = "link" ->
            IF item.customProps.tag = "string" /\ item.customProps.str = "versioned"
            THEN "DocSidebarVersionDropdown"
            ELSE "DocSidebarItemLink"
      [] OTHER -> "null"

\* The component the dispatcher returns; "null" when it renders nothing.
\* The "link" case without a match falls through to the default case.
DocSidebarItem(item) ==
    CASE item.type = "category" ->
            IF Len(item.items) = 0 THEN "null" ELSE "DocSidebarItemCategory"
      [] item.type = "link" ->
            IF item.customProps.tag = "string" /\ item.customProps.str = "versioned"
            THEN "DocSidebarVersionDropdown"
            ELSE "DocSidebarItemLink"
      [] OTHER -> "DocSidebarItemLink"

\* The markup DocSidebarVersionDropdown chooses.
DocSidebarVersionDropdown(size) ==
    IF size # "mobile" THEN "navbar-dropdown" ELSE "button-row"

\* An initial state that forgets the collapsible test.
initialState_IgnoresCollapsible(item, isActive) ==
    IF isActive THEN FALSE ELSE item.collapsed

\* initialState handed to useCollapsible.
initialState(item, isActive) ==
    IF ~item.collapsible THEN FALSE
    ELSE IF isActive THEN FALSE ELSE item.collapsed

\* JavaScript truthiness of the value usePrevious returns.
Truthy(value) == value = "true"

BoolValue(b) == IF b THEN "true" ELSE "false"

\* An effect that never expands.
useAutoExpandActiveCategory_Never(isActive, was, isCollapsed) == isCollapsed

\* An effect that looks at the level of isActive, not at its rising edge.
useAutoExpandActiveCategory_NoEdge(isActive, was, isCollapsed) ==
    IF isActive /\ isCollapsed THEN FALSE ELSE isCollapsed

\* The effect of useAutoExpandActiveCategory: the collapsed state it leaves.
useAutoExpandActiveCategory(isActive, was, isCollapsed) ==
    LET justBecameActive == isActive /\ ~Truthy(was)
    IN  IF justBecameActive /\ isCollapsed THEN FALSE ELSE isCollapsed

\* A toggle that only ever collapses.
toggleCollapsed_AlwaysCollapses(isCollapsed) == TRUE

\* toggleCollapsed of useCollapsible: setCollapsed((expanded) => !expanded).
toggleCollapsed(isCollapsed) == ~isCollapsed

\* A header whose handler is attached whether or not the item is collapsible.
onClick_IgnoresCollapsible(item, isCollapsed) ==
    [collapsed |-> ~isCollapsed, defaultPrevented |-> TRUE]

\* The onClick of the category header: what a click leaves behind.
onClick(item, isCollapsed) ==
    IF item.collapsible
    THEN [collapsed |-> toggleCollapsed(isCollapsed), defaultPrevented |-> TRUE]
    ELSE [collapsed |-> isCollapsed, defaultPrevented |-> FALSE]

\* Children that stay in the tab order whatever the collapsed state.
childTabIndex_AlwaysZero(isCollapsed) == "0"

\* tabIndex={collapsed ? -1 : 0} handed to the children of a category.
childTabIndex(isCollapsed) == IF isCollapsed THEN "-1" ELSE "0"

\* What DocSidebarItemLink renders: the active class, the method class and
\* the props spread onto the Link.
DocSidebarItemLink(item, path, tabIndex) ==
    [active   |-> isActiveSidebarItem(item, path),
     method   |-> IF item.customProps.tag = "undefined" THEN "noop"
                  ELSE item.customProps.method,
     tabIndex |-> tabIndex]

----------------------------------------------------------------------------
(* One render pass over the tree, effects included.  v is the view state:  *)
(* [activePath, windowSize, mounted, collapsed, wasActive].                *)

IsCategory(pos) == DocSidebarItem(ItemAt(pos)) = "DocSidebarItemCategory"

\* DocSidebarItemCategory for item at pos: its collapsed state once the render
\* and the effect of useAutoExpandActiveCategory have run.  On the first
\* render useCollapsible takes initialState and usePrevious returns undefined.
DocSidebarItemCategory(v, pos, item) ==
    LET isActive == isActiveSidebarItem(item, v.activePath)
        first    == pos \notin v.mounted
        state    == IF first THEN initialState(item, isActive) ELSE v.collapsed[pos]
        was      == IF first THEN "undefined" ELSE v.wasActive[pos]
    IN  [pos       |-> pos,
         category  |-> TRUE,
         collapsed |-> useAutoExpandActiveCategory(isActive, was, state),
         isActive  |-> isActive]

\* DocSidebarItems over a list: the component instances that exist after the
\* pass.  The children of a category are rendered once its lazy Collapsible
\* has been expanded for the first time, and stay mounted from then on; they
\* are mounted together, so the first child tells whether that has happened.
RECURSIVE DocSidebarItems(_, _, _)
DocSidebarItems(v, items, prefix) ==
    UNION { LET pos  == prefix \o <<i>>
                item == items[i]
            IN  IF DocSidebarItem(item) # "DocSidebarItemCategory"
                THEN {[pos |-> pos, category |-> FALSE,
                       collapsed |-> FALSE, isActive |-> FALSE]}
                ELSE LET instance == DocSidebarItemCategory(v, pos, item)
                     IN  {instance} \cup
                         IF (pos \o <<1>>) \in v.mounted \/ ~instance.collapsed
                         THEN DocSidebarItems(v, item.items, pos)
                         ELSE {}
          : i \in 1..Len(items) }

Render(v) ==
    LET instances  == DocSidebarItems(v, sidebar, <<>>)
        categories == {r \in instances : r.category}
        at(pos)    == CHOOSE r \in categories : r.pos = pos
    IN  [activePath |-> v.activePath,
         windowSize |-> v.windowSize,
         mounted    |-> {r.pos : r \in instances},
         collapsed  |-> [pos \in {r.pos : r \in categories} |-> at(pos).collapsed],
         wasActive  |-> [pos \in {r.pos : r \in categories} |->
                            BoolValue(at(pos).isActive)]]

View ==
    [activePath |-> activePath, windowSize |-> windowSize, mounted |-> mounted,
     collapsed |-> collapsed, wasActive |-> wasActive]

\* The three triggers as state transformers.
AfterNavigate(v, path) == Render([v EXCEPT !.activePath = path])

AfterResize(v, size) == Render([v EXCEPT !.windowSize = size])

AfterClick(v, pos) ==
    Render([v EXCEPT !.collapsed[pos] = onClick(ItemAt(pos), @).collapsed])

\* The view state becomes v; the sidebar is an immutable prop.
Commit(v) ==
    /\ activePath' = v.activePath
    /\ windowSize' = v.windowSize
    /\ mounted' = v.mounted
    /\ collapsed' = v.collapsed
    /\ wasActive' = v.wasActive
    /\ sidebar' = sidebar

----------------------------------------------------------------------------
(* The state machine *)

Unmounted(path) ==
    [activePath |-> path, windowSize |-> "ssr", mounted |-> {},
     collapsed |-> [pos \in {} |-> FALSE], wasActive |-> [pos \in {} |-> "undefined"]]

Init ==
    /\ sidebar \in Sidebars
    /\ \E path \in ActivePaths :
          LET v == Render(Unmounted(path))
          IN  /\ activePath = v.activePath
              /\ windowSize = v.windowSize
              /\ mounted = v.mounted
              /\ collapsed = v.collapsed
              /\ wasActive = v.wasActive

Navigate(path) ==
    /\ path \in ActivePaths
    /\ \E v \in {AfterNavigate(View, path)} : Commit(v)

Resize(size) ==
    /\ size \in WindowSizes
    /\ \E v \in {AfterResize(View, size)} : Commit(v)

Click(pos) ==
    /\ pos \in DOMAIN collapsed
    /\ \E v \in {AfterClick(View, pos)} : Commit(v)

Next ==
    \/ \E path \in ActivePaths : Navigate(path)
    \/ \E size \in WindowSizes : Resize(size)
    \/ \E pos \in Positions : Click(pos)

Spec == Init /\ [][Next]_vars

TypeOK ==
    /\ sidebar \in Sidebars
    /\ activePath \in ActivePaths
    /\ windowSize \in WindowSizes
    /\ mounted \subseteq Positions
    /\ DOMAIN collapsed = {pos \in mounted : IsCategory(pos)}
    /\ DOMAIN wasActive = DOMAIN collapsed
    /\ \A pos \in DOMAIN collapsed :
          collapsed[pos] \in BOOLEAN /\ wasActive[pos] \in {"true", "false"}

----------------------------------------------------------------------------
(* What is on screen in the current state *)

IsActive(pos) == isActiveSidebarItem(ItemAt(pos), activePath)

\* The tabIndex prop a position receives: the root list passes none, a
\* category passes its own and does not forward the one it received.
TabIndexAt(pos) ==
    IF Len(pos) = 1 THEN "undefined" ELSE childTabIndex(collapsed[Parent(pos)])

RenderedLinks == {pos \in mounted : DocSidebarItem(ItemAt(pos)) = "DocSidebarItemLink"}

LinkView(pos) == DocSidebarItemLink(ItemAt(pos), activePath, TabIndexAt(pos))

Ancestors(pos) == {SubSeq(pos, 1, k) : k \in 1..(Len(pos) - 1)}

Children(pos) == {pos \o <<i>> : i \in 1..Len(ItemAt(pos).items)}

----------------------------------------------------------------------------
(* Properties of the matcher and the dispatcher *)

\* The link items reachable under an item through categories, at any depth.
RECURSIVE LinksUnder(_)
LinksUnder(item) ==
    UNION { IF item.items[i].type = "link" THEN {item.items[i]}
            ELSE IF item.items[i].type = "category" THEN LinksUnder(item.items[i])
            ELSE {} : i \in 1..Len(item.items) }

\* C1: for every category of the sidebar and every active path, the matcher
\* is true iff some link reachable under the category, at any depth, has an
\* href the same-path predicate matches; for a link it is the same-path
\* predicate of its href.
C1_ActiveIffReachableLinkMatches ==
    \A pos \in Positions : \A path \in ActivePaths :
        LET item == ItemAt(pos)
        IN  /\ item.type = "category" =>
                 (isActiveSidebarItem(item, path)
                    <=> \E link \in LinksUnder(item) : isSamePath(link.href, path))
            /\ item.type = "link" =>
                 (isActiveSidebarItem(item, path) <=> isSamePath(item.href, path))

\* A root category is active through a link two levels down that matches
\* the active path only after normalisation, and no direct child matches.
C1_Witness ==
    \E pos \in DOMAIN collapsed :
        /\ Len(pos) = 1
        /\ IsActive(pos)
        /\ \A c \in Children(pos) :
              ItemAt(c).type = "link" => ~isSamePath(ItemAt(c).href, activePath)
        /\ \E link \in LinksUnder(ItemAt(pos)) :
              isSamePath(link.href, activePath) /\ link.href # activePath

\* C5: a link item is rendered by the version dropdown exactly when its
\* customProps.method equals "versioned"; every other link by the Link renderer.
C5_VersionedIffMethodVersioned ==
    \A pos \in mounted :
        ItemAt(pos).type = "link" =>
            /\ (DocSidebarItem(ItemAt(pos)) = "DocSidebarVersionDropdown"
                  <=> ItemAt(pos).customProps.method = "versioned")
            /\ (DocSidebarItem(ItemAt(pos)) = "DocSidebarItemLink"
                  <=> ItemAt(pos).customProps.method # "versioned")

\* C6: a category with no children renders nothing, whatever its flags and
\* the active path (no component, no collapsed state, nothing beneath it); a
\* category with a child is handed to the Category component.
C6_EmptyCategoryRendersNothing ==
    \A pos \in Positions :
        LET item == ItemAt(pos)
        IN  item.type = "category" =>
              IF Len(item.items) = 0
              THEN /\ DocSidebarItem(item) = "null"
                   /\ pos \notin DOMAIN collapsed
                   /\ \A path \in ActivePaths : pos \notin DOMAIN AfterNavigate(View, path).collapsed
              ELSE /\ DocSidebarItem(item) = "DocSidebarItemCategory"
                   /\ pos \in mounted => pos \in DOMAIN collapsed

\* The dispatcher has been called on an empty category nested in an expanded
\* category, and on a category that has children.
C6_Witness ==
    /\ \E pos \in mounted :
          /\ Len(pos) > 1
          /\ ItemAt(pos).type = "category"
          /\ Len(ItemAt(pos).items) = 0
    /\ \E pos \in DOMAIN collapsed : Len(ItemAt(pos).items) > 0

\* C7: an item whose type is neither "category" nor "link" is rendered by the
\* Link renderer and is never marked active, whatever the active path.
C7_UnknownTypeFallsBackToLink ==
    \A pos \in Positions :
        LET item == ItemAt(pos)
        IN  item.type \notin {"category", "link"} =>
              /\ DocSidebarItem(item) = "DocSidebarItemLink"
              /\ \A path \in ActivePaths :
                    /\ ~isActiveSidebarItem(item, path)
                    /\ \A tabIndex \in {"undefined", "-1", "0"} :
                          ~DocSidebarItemLink(item, path, tabIndex).active
              /\ pos \in mounted => pos \in RenderedLinks /\ ~LinkView(pos).active

\* An item of unknown type is on screen and its href is the active path.
C7_Witness ==
    \E pos \in RenderedLinks :
        /\ ItemAt(pos).type \notin {"category", "link"}
        /\ ItemAt(pos).href = activePath

----------------------------------------------------------------------------
(* Properties of the category state machine *)

\* The state a category starts in, as a function of its data and of the
\* links beneath it.
ExpectedInitialCollapsed(item, path) ==
    IF ~item.collapsible THEN FALSE
    ELSE IF \E link \in LinksUnder(item) : isSamePath(link.href, path) THEN FALSE
    ELSE item.collapsed

\* What holds of a category in the state in which it has just been mounted.
MountedAsExpected(pos) ==
    /\ collapsed[pos] = ExpectedInitialCollapsed(ItemAt(pos), activePath)
    /\ ~collapsed[pos] =>
          \A c \in Children(pos) :
             /\ c \in mounted
             /\ (ItemAt(c).type = "link" /\ isSamePath(ItemAt(c).href, activePath)
                   /\ c \in RenderedLinks) => LinkView(c).active

\* C2: a category is mounted expanded if it is not collapsible; otherwise
\* expanded if it is active for the active path, whatever item.collapsed says,
\* and otherwise collapsed exactly when item.collapsed is true.  A category
\* that starts expanded has its children on screen, a matching child link
\* marked active.
C2_InitialState ==
    /\ \A pos \in DOMAIN collapsed : MountedAsExpected(pos)
    /\ [][\A pos \in (DOMAIN collapsed') \ (DOMAIN collapsed) : MountedAsExpected(pos)']_vars

\* A nested category whose data says collapsed:true and collapsible:true is
\* on screen expanded, its matching child link marked active.
C2_Witness ==
    \E pos \in DOMAIN collapsed :
        /\ Len(pos) > 1
        /\ ItemAt(pos).collapsible /\ ItemAt(pos).collapsed
        /\ ~collapsed[pos]
        /\ \E c \in Children(pos) :
              /\ ItemAt(c).type = "link"
              /\ isSamePath(ItemAt(c).href, activePath)
              /\ c \in RenderedLinks /\ LinkView(c).active

\* C3: a click on the header of a collapsible category flips its collapsed
\* state and prevents the default navigation; a click on the header of a
\* category that is not collapsible changes nothing, and such a category is
\* expanded in every state.
C3_ClickFlipsOnlyCollapsible ==
    \A pos \in DOMAIN collapsed :
        LET item  == ItemAt(pos)
            after == AfterClick(View, pos)
        IN  IF item.collapsible
            THEN /\ after.collapsed[pos] = ~collapsed[pos]
                 /\ onClick(item, collapsed[pos]).defaultPrevented
            ELSE /\ after = View
                 /\ ~onClick(item, collapsed[pos]).defaultPrevented
                 /\ ~collapsed[pos]

\* A collapsible category has been collapsed by a click while it is active,
\* and a category that is not collapsible, with collapsed:true in its data, is
\* on screen.
C3_Witness ==
    /\ \E pos \in DOMAIN collapsed :
          ItemAt(pos).collapsible /\ IsActive(pos) /\ collapsed[pos]
    /\ \E pos \in DOMAIN collapsed :
          ~ItemAt(pos).collapsible /\ ItemAt(pos).collapsed

\* C4: in every step in which a mounted, collapsed category turns from
\* inactive to active it becomes expanded; in every step in which it turns
\* from active to inactive its collapsed state stays as it is.
C4_AutoExpandOnActivation ==
    [][\A pos \in DOMAIN collapsed :
          /\ (~IsActive(pos) /\ IsActive(pos)' /\ collapsed[pos]) => ~collapsed'[pos]
          /\ (IsActive(pos) /\ ~IsActive(pos)') => collapsed'[pos] = collapsed[pos]]_vars

\* A category collapsed by a click is inactive, and a navigation makes it
\* active and leaves it expanded.
C4_Witness ==
    \E pos \in DOMAIN collapsed : \E path \in ActivePaths :
        /\ ItemAt(pos).collapsible /\ ~ItemAt(pos).collapsed
        /\ collapsed[pos] /\ ~IsActive(pos)
        /\ isActiveSidebarItem(ItemAt(pos), path)
        /\ ~AfterNavigate(View, path).collapsed[pos]

\* C10: a click that collapses an active category leaves it collapsed, and so
\* does every re-render after it in which the category is still active (a
\* navigation to a path under it, a viewport change); a collapsed category
\* becomes expanded only by a click on its header or in a step in which it
\* turns from inactive to active.
C10_ExpandOncePerActivationEdge ==
    /\ [](\A pos \in DOMAIN collapsed :
            (ItemAt(pos).collapsible /\ IsActive(pos) /\ ~collapsed[pos]) =>
                \A clicked \in {AfterClick(View, pos)} :
                    /\ clicked.collapsed[pos]
                    /\ \A path \in ActivePaths :
                          isActiveSidebarItem(ItemAt(pos), path) =>
                              AfterNavigate(clicked, path).collapsed[pos]
                    /\ \A size \in WindowSizes :
                          AfterResize(clicked, size).collapsed[pos])
    /\ [][\A pos \in DOMAIN collapsed :
             (collapsed[pos] /\ ~collapsed'[pos]) =>
                \/ View' = AfterClick(View, pos)
                \/ ~IsActive(pos) /\ IsActive(pos)']_vars

\* An active category is collapsed although a link beneath it is the active
\* path: it was collapsed by a click and has stayed so.
C10_Witness ==
    \E pos \in DOMAIN collapsed :
        /\ IsActive(pos) /\ collapsed[pos] /\ wasActive[pos] = "true"
        /\ \E c \in Children(pos) : c \in mounted

----------------------------------------------------------------------------
(* The triggers against each other *)

\* C8 as stated: a navigation and a header click leave a category in the same
\* collapsed state in either order, and each trigger applied twice leaves the
\* state it leaves applied once.
C8_TriggersCommuteAndAreIdempotent ==
    /\ \A path \in ActivePaths : \A navigated \in {AfterNavigate(View, path)} :
          /\ AfterNavigate(navigated, path) = navigated
          /\ \A pos \in DOMAIN collapsed : \A clicked \in {AfterClick(View, pos)} :
                AfterNavigate(clicked, path).collapsed[pos]
                   = AfterClick(navigated, pos).collapsed[pos]
    /\ \A size \in WindowSizes : \A resized \in {AfterResize(View, size)} :
          AfterResize(resized, size) = resized
    /\ \A pos \in DOMAIN collapsed : \A clicked \in {AfterClick(View, pos)} :
          AfterClick(clicked, pos) = clicked

\* C8, amended: navigation and viewport change are idempotent; a viewport
\* change writes the window size alone, which navigation and click never
\* write; a click on a collapsible header is a toggle, so the second click
\* undoes the first; a click and a navigation leave the clicked category in
\* different collapsed states exactly when the category is collapsible and
\* the navigation turns it from inactive to active.
C8_TriggersAmended ==
    /\ \A size \in WindowSizes : \A resized \in {AfterResize(View, size)} :
          /\ resized = [View EXCEPT !.windowSize = size]
          /\ AfterResize(resized, size) = resized
    /\ \A path \in ActivePaths : \A navigated \in {AfterNavigate(View, path)} :
          /\ navigated.windowSize = windowSize
          /\ AfterNavigate(navigated, path) = navigated
          /\ \A pos \in DOMAIN collapsed : \A clicked \in {AfterClick(View, pos)} :
                (AfterNavigate(clicked, path).collapsed[pos]
                    # AfterClick(navigated, pos).collapsed[pos])
                <=> (/\ ItemAt(pos).collapsible
                     /\ ~IsActive(pos)
                     /\ isActiveSidebarItem(ItemAt(pos), path))
    /\ \A pos \in DOMAIN collapsed : \A clicked \in {AfterClick(View, pos)} :
          /\ clicked.windowSize = windowSize
          /\ ItemAt(pos).collapsible =>
                /\ clicked.collapsed[pos] # collapsed[pos]
                /\ AfterClick(clicked, pos).collapsed[pos] = collapsed[pos]

\* A category collapsed by a click is inactive and some navigation makes it
\* active: click-then-navigate leaves it expanded, navigate-then-click
\* collapsed.
C8_Witness ==
    \E pos \in DOMAIN collapsed : \E path \in ActivePaths :
        /\ ~ItemAt(pos).collapsed /\ collapsed[pos]
        /\ \E clicked \in {AfterClick(View, pos)} :
              ~AfterNavigate(clicked, path).collapsed[pos]
        /\ \E navigated \in {AfterNavigate(View, path)} :
              AfterClick(navigated, pos).collapsed[pos]

----------------------------------------------------------------------------
(* Tab order *)

\* C9 as stated: a rendered link has tab index -1 when any category above it,
\* at any distance, is collapsed, and tab index 0 when all of them are
\* expanded.
C9_LinksUnderAnyCollapsedCategory ==
    \A pos \in RenderedLinks :
        Len(pos) > 1 =>
            IF \E a \in Ancestors(pos) : collapsed[a]
            THEN LinkView(pos).tabIndex = "-1"
            ELSE LinkView(pos).tabIndex = "0"

\* C9, amended: a rendered link that is a direct child of a category has tab
\* index -1 while that category is collapsed and 0 while it is expanded; the
\* categories further up do not count, so a link in an expanded sub-category
\* of a collapsed category has tab index 0.
C9_TabIndexFollowsParent ==
    \A pos \in RenderedLinks :
        Len(pos) > 1 =>
            /\ collapsed[Parent(pos)] => LinkView(pos).tabIndex = "-1"
            /\ ~collapsed[Parent(pos)] => LinkView(pos).tabIndex = "0"

\* A link is on screen in an expanded sub-category of a collapsed category,
\* and a link is on screen directly under a collapsed category.
C9_Witness ==
    /\ \E pos \in RenderedLinks :
          /\ Len(pos) > 2
          /\ ~collapsed[Parent(pos)]
          /\ collapsed[Parent(Parent(pos))]
          /\ LinkView(pos).tabIndex = "0"
    /\ \E pos \in RenderedLinks :
          Len(pos) > 1 /\ collapsed[Parent(pos)] /\ LinkView(pos).tabIndex = "-1"

====
